---------------------------- MODULE Spec2Model ----------------------------
(***************************************************************************)
(* The event-sort engine PickupPoint of src/enhanced_pvz_simulation.py     *)
(* (src/improved_pvz_simulation.py is the same engine without balking and  *)
(* without zones).                                                         *)
(*                                                                         *)
(* Simulated time is counted in whole ticks.  Every random draw of the     *)
(* code is an input chosen with \E from a small set: a call of             *)
(* random.random() is a value in permille (0..999) drawn from Draws, an    *)
(* interarrival gap is drawn from Gaps, a normal variate from Normals and  *)
(* an incident delay from Delays.  The probabilities of the code are kept  *)
(* in permille too (0.05 is 50).                                           *)
(*                                                                         *)
(* One action models one whole pass of the while loop of run_simulation:   *)
(* the sort, the pop, the clock update, the handler and, for an arrival,   *)
(* the scheduling of the next arrival.                                     *)
(***************************************************************************)
EXTENDS Integers, Sequences, FiniteSets, TLC

VARIABLES
    num_employees,          \* PickupPoint.num_employees (configuration)
    num_self_service,       \* PickupPoint.num_self_service (configuration)
    use_bee_algorithm,      \* PickupPoint.use_bee_algorithm (configuration)
    simulation_time,        \* the argument of run_simulation (the horizon)
    available_employees,
    available_self_service,
    employee_queue,         \* sequence of customer ids
    self_service_queue,     \* sequence of customer ids
    all_customers,          \* sequence of Customer records, id i at index i+1
    waiting_times,
    events,                 \* the list self.events, in list order
    time,                   \* self.time, the clock
    total_customers,
    zones,                  \* zone loads, zone i at index i+1; << >> is None
    balked_customers,
    event,                  \* the local `event` of run_simulation, NoEvent before the first pop
    pc,                     \* position in run_simulation: "start", "loop", "done"
    scheduled,              \* history: number of events appended to self.events so far
    dispatched,             \* history: the events popped so far, in pop order
    results,                \* the result of analyze_results for this run, NoResults before
    assigned,               \* history: the zone assignments made so far, in order,
                            \* each with the number of the loop pass that made it
    employee_busy,          \* pvz_simple_simulation: PickupPoint.employee_busy
    self_service_busy,      \* pvz_simple_simulation: PickupPoint.self_service_busy
    simple_customers,       \* pvz_simple_simulation: PickupPoint.customers
    next_arrival,           \* pvz_simple_simulation: the local of run_simulation
    customer_id             \* pvz_simple_simulation: the local of run_simulation

vars == << num_employees, num_self_service, use_bee_algorithm, simulation_time,
           available_employees, available_self_service, employee_queue,
           self_service_queue, all_customers, waiting_times, events, time,
           total_customers, zones, balked_customers, event, pc, scheduled,
           dispatched, results, assigned, employee_busy, self_service_busy,
           simple_customers, next_arrival, customer_id >>

-----------------------------------------------------------------------------
(* Bounds of the model. *)

MaxCustomers == 3       \* customers created in one run
MaxHorizon == 3         \* largest horizon a run is started with, in ticks
MaxEmployees == 1       \* largest staff count a run is configured with
MaxLine == 25           \* longest waiting line a balking decision is taken on
ZoneCustomers == 9      \* customers created in one run that starts with a burst
ZoneHorizon == 5        \* horizon of a run that starts with a burst
Burst == 5              \* staff customers waiting after the burst
MaxSteps == 4           \* largest horizon of a fixed-timestep run, in time steps

(* Program constants, probabilities in permille. *)

None == -1                      \* the unset value of a timestamp
MIN_SERVICE_TIME == 1           \* the floor of max(0.1, ...), one tick
DELAY_PROBABILITY == 100
DELAY_TIME_MIN == 1
SELF_SERVICE_RATIO == 500
BAULK_PROBABILITY == 50
BALK_INCREMENT == 20
BALK_CAP == 500
NUM_ZONES == 3
ZONE_EFFICIENCY == 1
SIMULATION_TIME == 120

(* The values the random source is drawn from. *)

Draws == {0, 60, 600}                   \* random.random(), in permille
(* exponential_random, -log(1 - U)/rate with U in [0, 1): the same tick, the
   next tick, or a gap that reaches beyond every horizon. *)
Gaps == {0, 1, MaxHorizon}
Normals == {MIN_SERVICE_TIME - 1, MIN_SERVICE_TIME}     \* random.normalvariate, before the floor
Delays == {DELAY_TIME_MIN}              \* random.uniform(DELAY_TIME_MIN, DELAY_TIME_MAX)
SelfServiceCounts == {0, 1}             \* no terminal, as in the baseline scenario, or one

NoResults == [ raised |-> FALSE ]

NoEvent == [time |-> None, type |-> "none", customer |-> None, seq |-> 0]

-----------------------------------------------------------------------------
(* The engine state a handler reads and writes, as one record. *)

Engine ==
    [available_employees |-> available_employees,
     available_self_service |-> available_self_service,
     employee_queue |-> employee_queue,
     self_service_queue |-> self_service_queue,
     all_customers |-> all_customers,
     events |-> events,
     time |-> time,
     total_customers |-> total_customers,
     zones |-> zones,
     balked_customers |-> balked_customers,
     scheduled |-> scheduled,
     assigned |-> assigned]

Min(a, b) == IF a < b THEN a ELSE b
Max(a, b) == IF a > b THEN a ELSE b

(* Customer.__init__: the service time is floored, the channel is drawn once. *)
Customer(id, arrival_time, normal, u_self) ==
    [id |-> id,
     arrival_time |-> arrival_time,
     start_service_time |-> None,
     departure_time |-> None,
     service_time |-> Max(MIN_SERVICE_TIME, normal),
     is_self_service |-> u_self < SELF_SERVICE_RATIO,
     balked |-> FALSE]

(* Event.__init__; seq is the history number of the append. *)
Event(t, type, customer, seq) ==
    [time |-> t, type |-> type, customer |-> customer, seq |-> seq]

(* self.events.append(Event(...)) *)
AppendEvent(s, t, type, customer) ==
    [s EXCEPT !.events = Append(@, Event(t, type, customer, s.scheduled + 1)),
              !.scheduled = @ + 1]

(* Faulty variant of InsertByTime: an unstable sort, an event goes before those of its time. *)
RECURSIVE InsertByTime_Unstable(_, _)
InsertByTime_Unstable(sorted, e) ==
    IF sorted = << >> THEN << e >>
    ELSE IF e.time <= Head(sorted).time THEN << e >> \o sorted
    ELSE << Head(sorted) >> \o InsertByTime_Unstable(Tail(sorted), e)

(* list.sort(key=lambda x: x.time): stable, equal times keep their list order. *)
RECURSIVE InsertByTime(_, _)
InsertByTime(sorted, e) ==
    IF sorted = << >> THEN << e >>
    ELSE IF e.time < Head(sorted).time THEN << e >> \o sorted
    ELSE << Head(sorted) >> \o InsertByTime(Tail(sorted), e)

RECURSIVE SortFrom(_, _)
SortFrom(sorted, rest) ==
    IF rest = << >> THEN sorted
    ELSE SortFrom(InsertByTime(sorted, Head(rest)), Tail(rest))

(* Faulty variant of SortEvents: the list is not sorted before the pop. *)
SortEvents_Unsorted(evs) == evs

SortEvents(evs) == SortFrom(<< >>, evs)

(* Faulty variant of schedule_arrival: the ids are counted from 1. *)
schedule_arrival_IdFromOne(s, t, normal, u_self) ==
    LET customer == Customer(s.total_customers + 1, t, normal, u_self)
        s1 == [s EXCEPT !.total_customers = @ + 1,
                        !.all_customers = Append(@, customer)]
    IN  AppendEvent(s1, t, "arrival", customer.id)

schedule_arrival(s, t, normal, u_self) ==
    LET customer == Customer(s.total_customers, t, normal, u_self)
        s1 == [s EXCEPT !.total_customers = @ + 1,
                        !.all_customers = Append(@, customer)]
    IN  AppendEvent(s1, t, "arrival", customer.id)

schedule_departure(s, t, c) ==
    AppendEvent([s EXCEPT !.all_customers[c + 1].departure_time = t],
                t, "departure", c)

(* Faulty variants of schedule_balk: no balk event is appended; the counter
   balked_customers is not raised. *)
schedule_balk_NoEvent(s, t, c) ==
    [s EXCEPT !.all_customers[c + 1].balked = TRUE,
              !.balked_customers = @ + 1]

schedule_balk_NoCount(s, t, c) ==
    AppendEvent([s EXCEPT !.all_customers[c + 1].balked = TRUE], t, "balk", c)

schedule_balk(s, t, c) ==
    AppendEvent([s EXCEPT !.all_customers[c + 1].balked = TRUE,
                          !.balked_customers = @ + 1],
                t, "balk", c)

(* Faulty variant of bee_algorithm_select_zone: the first zone is taken,
   whatever its load. *)
bee_algorithm_select_zone_First(zs) ==
    IF zs = << >> THEN 0 ELSE 1

(* Faulty variant of MinScan: a later zone of equal load replaces the best. *)
RECURSIVE MinScan_LastMin(_, _, _)
MinScan_LastMin(zs, i, best) ==
    IF i > Len(zs) THEN best
    ELSE MinScan_LastMin(zs, i + 1, IF zs[i] <= zs[best] THEN i ELSE best)

bee_algorithm_select_zone_LastMin(zs) ==
    IF zs = << >> THEN 0 ELSE MinScan_LastMin(zs, 2, 1)

(* min(iterable, key=...): one pass over the zones from index i on, keeping
   the best so far and replacing it only by a zone of strictly smaller load. *)
RECURSIVE MinScan(_, _, _)
MinScan(zs, i, best) ==
    IF i > Len(zs) THEN best
    ELSE MinScan(zs, i + 1, IF zs[i] < zs[best] THEN i ELSE best)

(* min(self.zones, key=lambda z: z.load): the first zone of least load; 0 is None. *)
bee_algorithm_select_zone(zs) ==
    IF zs = << >> THEN 0 ELSE MinScan(zs, 2, 1)

(* best_zone: scale the service time by its efficiency, add one to its load. *)
AssignZone(s, c) ==
    LET best_zone == bee_algorithm_select_zone(s.zones)
    IN  IF best_zone = 0 THEN s
        ELSE [s EXCEPT !.all_customers[c + 1].service_time = @ * ZONE_EFFICIENCY,
                       !.zones[best_zone] = @ + 1,
                       !.assigned = Append(@, [zone |-> best_zone, customer |-> c,
                                               pass |-> Len(dispatched) + 1])]

(* Faulty variant of ReleaseZone: without the break, every loaded zone loses
   one. *)
ReleaseZone_NoBreak(zs) ==
    [ i \in DOMAIN zs |-> IF zs[i] > 0 THEN zs[i] - 1 ELSE zs[i] ]

(* for zone in self.zones: if zone.load > 0: zone.load -= 1; break *)
ReleaseZone(zs) ==
    IF \E i \in 1 .. Len(zs) : zs[i] > 0
    THEN LET first == CHOOSE i \in 1 .. Len(zs) :
                          /\ zs[i] > 0
                          /\ \A j \in 1 .. (i - 1) : ~(zs[j] > 0)
         IN  [zs EXCEPT ![first] = @ - 1]
    ELSE zs

(* Faulty variant of will_customer_balk: the length of the other line is read. *)
will_customer_balk_OtherLine(s, is_self_service, u) ==
    LET queue_length == IF is_self_service THEN Len(s.employee_queue)
                        ELSE Len(s.self_service_queue)
        balking_prob == BAULK_PROBABILITY + (queue_length * BALK_INCREMENT)
    IN  u < Min(balking_prob, BALK_CAP)

(* will_customer_balk: u is the draw of random.random(). *)
will_customer_balk(s, is_self_service, u) ==
    LET queue_length == IF is_self_service THEN Len(s.self_service_queue)
                        ELSE Len(s.employee_queue)
        balking_prob == BAULK_PROBABILITY + (queue_length * BALK_INCREMENT)
    IN  u < Min(balking_prob, BALK_CAP)

(* service_time, plus the incident delay when the draw u succeeds. *)
DelayedServiceTime(service_time, u, delay) ==
    IF u < DELAY_PROBABILITY THEN service_time + delay ELSE service_time

(* Faulty variant of StartService: the incident delay is written into the
   customer's stored service_time. *)
StartService_StoresDelay(s, c, u_delay, delay) ==
    LET service_time == DelayedServiceTime(s.all_customers[c + 1].service_time,
                                           u_delay, delay)
        s1 == [s EXCEPT !.all_customers[c + 1].start_service_time = s.time,
                        !.all_customers[c + 1].service_time = service_time]
    IN  schedule_departure(s1, s1.time + service_time, c)

(* start_service_time = self.time, then the departure is scheduled. *)
StartService(s, c, u_delay, delay) ==
    LET s1 == [s EXCEPT !.all_customers[c + 1].start_service_time = s.time]
        service_time == DelayedServiceTime(s1.all_customers[c + 1].service_time,
                                           u_delay, delay)
        departure_time == s1.time + service_time
    IN  schedule_departure(s1, departure_time, c)

-----------------------------------------------------------------------------
(* The handlers. *)

(* Faulty variant of AdmitCustomer: service starts without taking the slot. *)
AdmitCustomer_NoDecrement(s, c, u_delay, delay) ==
    LET is_self_service == s.all_customers[c + 1].is_self_service
        s1 == IF use_bee_algorithm /\ ~is_self_service THEN AssignZone(s, c) ELSE s
    IN  IF is_self_service /\ s1.available_self_service > 0
        THEN StartService(s1, c, u_delay, delay)
        ELSE IF ~is_self_service /\ s1.available_employees > 0
        THEN StartService(s1, c, u_delay, delay)
        ELSE IF is_self_service
        THEN [s1 EXCEPT !.self_service_queue = Append(@, c)]
        ELSE [s1 EXCEPT !.employee_queue = Append(@, c)]

(* Faulty variant of AdmitCustomer: a customer is served at once only when more
   than one slot is free. *)
AdmitCustomer_OffByOne(s, c, u_delay, delay) ==
    LET is_self_service == s.all_customers[c + 1].is_self_service
        s1 == IF use_bee_algorithm /\ ~is_self_service THEN AssignZone(s, c) ELSE s
    IN  IF is_self_service /\ s1.available_self_service > 1
        THEN StartService([s1 EXCEPT !.available_self_service = @ - 1],
                          c, u_delay, delay)
        ELSE IF ~is_self_service /\ s1.available_employees > 1
        THEN StartService([s1 EXCEPT !.available_employees = @ - 1],
                          c, u_delay, delay)
        ELSE IF is_self_service
        THEN [s1 EXCEPT !.self_service_queue = Append(@, c)]
        ELSE [s1 EXCEPT !.employee_queue = Append(@, c)]

(* handle_arrival, the part after the balking check. *)
AdmitCustomer(s, c, u_delay, delay) ==
    LET is_self_service == s.all_customers[c + 1].is_self_service
        s1 == IF use_bee_algorithm /\ ~is_self_service THEN AssignZone(s, c) ELSE s
    IN  IF is_self_service /\ s1.available_self_service > 0
        THEN StartService([s1 EXCEPT !.available_self_service = @ - 1],
                          c, u_delay, delay)
        ELSE IF ~is_self_service /\ s1.available_employees > 0
        THEN StartService([s1 EXCEPT !.available_employees = @ - 1],
                          c, u_delay, delay)
        ELSE IF is_self_service
        THEN [s1 EXCEPT !.self_service_queue = Append(@, c)]
        ELSE [s1 EXCEPT !.employee_queue = Append(@, c)]

(* Faulty variant of handle_arrival: no return after schedule_balk. *)
handle_arrival_NoReturn(s, c, u_balk, u_delay, delay) ==
    IF will_customer_balk(s, s.all_customers[c + 1].is_self_service, u_balk)
    THEN AdmitCustomer(schedule_balk(s, s.time, c), c, u_delay, delay)
    ELSE AdmitCustomer(s, c, u_delay, delay)

handle_arrival(s, c, u_balk, u_delay, delay) ==
    IF will_customer_balk(s, s.all_customers[c + 1].is_self_service, u_balk)
    THEN schedule_balk(s, s.time, c)
    ELSE AdmitCustomer(s, c, u_delay, delay)

(* Faulty variant of ServeNext: start_service_time of the customer pulled is
   not set. *)
ServeNext_NoStart(s, next_customer, u_delay, delay) ==
    LET s2 == IF use_bee_algorithm THEN AssignZone(s, next_customer) ELSE s
        service_time == DelayedServiceTime(
                            s2.all_customers[next_customer + 1].service_time,
                            u_delay, delay)
        departure_time == s2.time + service_time
    IN  schedule_departure(s2, departure_time, next_customer)

(* handle_departure: the waiting customer pulled into service, if there is one. *)
ServeNext(s, next_customer, u_delay, delay) ==
    LET s1 == [s EXCEPT !.all_customers[next_customer + 1].start_service_time = s.time]
        s2 == IF use_bee_algorithm THEN AssignZone(s1, next_customer) ELSE s1
        service_time == DelayedServiceTime(
                            s2.all_customers[next_customer + 1].service_time,
                            u_delay, delay)
        departure_time == s2.time + service_time
    IN  schedule_departure(s2, departure_time, next_customer)

FreeZone(s) ==
    IF use_bee_algorithm /\ s.zones # << >>
    THEN [s EXCEPT !.zones = ReleaseZone(@)]
    ELSE s

(* Faulty variants of pop0: the last customer is taken; the customer taken
   stays in the line. *)
pop0_Last(queue) ==
    [customer |-> queue[Len(queue)], rest |-> SubSeq(queue, 1, Len(queue) - 1)]

pop0_Kept(queue) == [customer |-> Head(queue), rest |-> queue]

(* list.pop(0) on a waiting line: the customer taken and the line left. *)
pop0(queue) == [customer |-> Head(queue), rest |-> Tail(queue)]

handle_departure(s, c, u_delay, delay) ==
    IF s.all_customers[c + 1].is_self_service
    THEN LET s1 == FreeZone([s EXCEPT !.available_self_service = @ + 1])
         IN  IF s1.self_service_queue # << >>
             THEN ServeNext([s1 EXCEPT !.self_service_queue = pop0(@).rest],
                            pop0(s1.self_service_queue).customer, u_delay, delay)
             ELSE s1
    ELSE LET s1 == FreeZone([s EXCEPT !.available_employees = @ + 1])
         IN  IF s1.employee_queue # << >>
             THEN ServeNext([s1 EXCEPT !.employee_queue = pop0(@).rest],
                            pop0(s1.employee_queue).customer, u_delay, delay)
             ELSE s1

-----------------------------------------------------------------------------
(* run_simulation. *)

(* self.events.sort(...); event = self.events.pop(0); self.time = event.time *)
NextEvent == Head(SortEvents(events))

(* Faulty variant of Popped: the clock is not advanced to the time of the event. *)
Popped_StaleClock == [Engine EXCEPT !.events = Tail(SortEvents(events))]

Popped ==
    [Engine EXCEPT !.events = Tail(SortEvents(events)),
                   !.time = NextEvent.time]

(* The engine state after one pass of the loop is written back. *)
Store(s) ==
    /\ available_employees' = s.available_employees
    /\ available_self_service' = s.available_self_service
    /\ employee_queue' = s.employee_queue
    /\ self_service_queue' = s.self_service_queue
    /\ all_customers' = s.all_customers
    /\ events' = s.events
    /\ time' = s.time
    /\ total_customers' = s.total_customers
    /\ zones' = s.zones
    /\ balked_customers' = s.balked_customers
    /\ scheduled' = s.scheduled
    /\ assigned' = s.assigned

(* A quotient a / b, kept exact; b = 0 is Python's ZeroDivisionError. *)
Quotient(a, b) == [num |-> a, den |-> b]

RECURSIVE Sum(_)
Sum(seq) == IF seq = << >> THEN 0 ELSE Head(seq) + Sum(Tail(seq))

RECURSIVE MaxOf(_)
MaxOf(seq) ==
    IF Len(seq) = 1 THEN Head(seq) ELSE Max(Head(seq), MaxOf(Tail(seq)))

customers_served(customers) ==
    Cardinality({ i \in DOMAIN customers : customers[i].departure_time # None })

(* The record analyze_results builds for one scenario; raised tells that the
   computation stopped on a division by zero. *)
Result(avg_waiting_time, max_waiting_time, s) ==
    LET served_customers == customers_served(s.all_customers)
        total_capacity == num_employees + num_self_service
    IN  [ raised |-> avg_waiting_time.den = 0,
          avg_waiting_time |-> avg_waiting_time,
          max_waiting_time |-> max_waiting_time,
          total_customers |-> Len(s.all_customers),
          customers_served |-> served_customers,
          balked_customers |-> s.balked_customers,
          utilization_rate |->
              IF total_capacity > 0
              THEN Quotient(Min(100 * (SIMULATION_TIME \div 2), served_customers * 10),
                            SIMULATION_TIME \div 2)
              ELSE Quotient(0, 1) ]

(* Faulty variant of analyze_results: the average is taken without the guard. *)
analyze_results_Unguarded(s, wt) ==
    Result(Quotient(Sum(wt), Len(wt)), IF Len(wt) > 0 THEN MaxOf(wt) ELSE 0, s)

analyze_results(s, wt) ==
    IF Len(wt) > 0
    THEN Result(Quotient(Sum(wt), Len(wt)), MaxOf(wt), s)
    ELSE Result(Quotient(0, 1), 0, s)

(* The state of the fixed-timestep variant of src/pvz_simple_simulation.py,
   which the event-sort engine never touches. *)
SimpleState ==
    << employee_busy, self_service_busy, simple_customers, next_arrival,
       customer_id >>

(* No fixed-timestep run has been constructed. *)
SimpleUnused ==
    /\ employee_busy = << >>
    /\ self_service_busy = << >>
    /\ simple_customers = << >>
    /\ next_arrival = None
    /\ customer_id = 0

Config == << num_employees, num_self_service, use_bee_algorithm, simulation_time >>

(* PickupPoint.__init__, with the configuration and the horizon chosen. *)
Init ==
    /\ num_employees \in 1 .. MaxEmployees
    /\ num_self_service \in SelfServiceCounts
    /\ use_bee_algorithm \in BOOLEAN
    /\ simulation_time \in 0 .. MaxHorizon
    /\ available_employees = num_employees
    /\ available_self_service = num_self_service
    /\ employee_queue = << >>
    /\ self_service_queue = << >>
    /\ all_customers = << >>
    /\ waiting_times = << >>
    /\ events = << >>
    /\ time = 0
    /\ total_customers = 0
    /\ zones = IF use_bee_algorithm THEN [i \in 1 .. NUM_ZONES |-> 0] ELSE << >>
    /\ balked_customers = 0
    /\ event = NoEvent
    /\ pc = "start"
    /\ scheduled = 0
    /\ dispatched = << >>
    /\ results = NoResults
    /\ SimpleUnused
    /\ assigned = << >>

(* The outcomes of a handler or of a scheduling over all values of its draws. *)
NewArrivals(s, t) ==
    { schedule_arrival(s, t, normal, u_self) : normal \in Normals, u_self \in Draws }

ArrivalOutcomes(s, c) ==
    { handle_arrival(s, c, u_balk, u_delay, delay) :
          u_balk \in Draws, u_delay \in Draws, delay \in Delays }

DepartureOutcomes(s, c) ==
    { handle_departure(s, c, u_delay, delay) : u_delay \in Draws, delay \in Delays }

(* The first arrival is scheduled, whatever the horizon; the gap is drawn from gaps. *)
ScheduleFirstArrival(gaps) ==
    /\ pc = "start"
    /\ \E gap \in gaps : \E s1 \in NewArrivals(Engine, gap) : Store(s1)
    /\ pc' = "loop"
    /\ UNCHANGED << Config, SimpleState, results, waiting_times, event, dispatched >>

FirstArrival == ScheduleFirstArrival(Gaps)

(* Faulty variant of LoopGuard: the loop stops one tick before the horizon. *)
LoopGuard_OneShort == events # << >> /\ time + 1 < simulation_time

LoopGuard == events # << >> /\ time < simulation_time

(* The arrival branch: handle_arrival, then the next arrival if it lies inside
   the horizon; the gap is drawn from gaps.  A run that would create more than
   max_customers customers is not followed further. *)
ArrivalPassUpTo(gaps, max_customers) ==
    /\ pc = "loop"
    /\ LoopGuard
    /\ NextEvent.type = "arrival"
    /\ \E s1 \in ArrivalOutcomes(Popped, NextEvent.customer) : \E gap \in gaps :
          LET next_arrival_time == s1.time + gap
          IN  IF next_arrival_time < simulation_time
              THEN /\ total_customers < max_customers
                   /\ \E s2 \in NewArrivals(s1, next_arrival_time) : Store(s2)
              ELSE Store(s1)
    /\ event' = NextEvent
    /\ dispatched' = Append(dispatched, NextEvent)
    /\ UNCHANGED << Config, SimpleState, results, waiting_times, pc >>

ArrivalPass(gaps) == ArrivalPassUpTo(gaps, MaxCustomers)

DispatchArrival == ArrivalPass(Gaps)

DispatchDeparture ==
    /\ pc = "loop"
    /\ LoopGuard
    /\ NextEvent.type = "departure"
    /\ \E s1 \in DepartureOutcomes(Popped, NextEvent.customer) : Store(s1)
    /\ event' = NextEvent
    /\ dispatched' = Append(dispatched, NextEvent)
    /\ UNCHANGED << Config, SimpleState, results, waiting_times, pc >>

(* The balk branch does nothing beyond the pop. *)
DispatchBalk ==
    /\ pc = "loop"
    /\ LoopGuard
    /\ NextEvent.type = "balk"
    /\ Store(Popped)
    /\ event' = NextEvent
    /\ dispatched' = Append(dispatched, NextEvent)
    /\ UNCHANGED << Config, SimpleState, results, waiting_times, pc >>

(* Faulty variant of WaitingTimes: every customer gets an entry. *)
RECURSIVE WaitingTimes_Everyone(_)
WaitingTimes_Everyone(customers) ==
    IF customers = << >> THEN << >>
    ELSE LET customer == Head(customers)
         IN  << customer.start_service_time - customer.arrival_time >>
                 \o WaitingTimes_Everyone(Tail(customers))

(* The waiting times of the customers who started service and did not balk. *)
RECURSIVE WaitingTimes(_)
WaitingTimes(customers) ==
    IF customers = << >> THEN << >>
    ELSE LET customer == Head(customers)
         IN  (IF customer.start_service_time # None /\ ~customer.balked
              THEN << customer.start_service_time - customer.arrival_time >>
              ELSE << >>) \o WaitingTimes(Tail(customers))

(* The loop ends; the waiting times are computed and run_simulation returns. *)
Finish ==
    /\ pc = "loop"
    /\ ~LoopGuard
    /\ waiting_times' = waiting_times \o WaitingTimes(all_customers)
    /\ pc' = "done"
    /\ UNCHANGED << Config, SimpleState, results, available_employees, available_self_service,
                    employee_queue, self_service_queue, all_customers, events,
                    time, total_customers, zones, balked_customers, event,
                    scheduled, dispatched, assigned >>

Next ==
    \/ FirstArrival
    \/ DispatchArrival
    \/ DispatchDeparture
    \/ DispatchBalk
    \/ Finish

Spec == Init /\ [][Next]_vars

(* main: after run_scenario has returned, analyze_results reads the run. *)
Analyze ==
    /\ pc = "done"
    /\ results' = analyze_results(Engine, waiting_times)
    /\ pc' = "analyzed"
    /\ UNCHANGED << Config, SimpleState, available_employees, available_self_service,
                    employee_queue, self_service_queue, all_customers,
                    waiting_times, events, time, total_customers, zones,
                    balked_customers, event, scheduled, dispatched, assigned >>

NextAnalysis ==
    \/ Next
    \/ Analyze

AnalysisSpec == Init /\ [][NextAnalysis]_vars

(* The runs that begin with a burst of arrivals at time 0 of which none balks:
   one staff customer, who is served, then staff_line staff customers and
   self_line self-service customers, who wait (one employee, no terminal),
   and the arrival of one more customer scheduled at time 0.  LineUp is the
   state of the engine when that last arrival is about to be dispatched. *)
LineUpCustomers(staff_line, self_line, last_is_self_service) ==
    [ i \in 1 .. staff_line + self_line + 2 |->
        LET c == Customer(i - 1, 0, MIN_SERVICE_TIME,
                          IF \/ i - 1 > staff_line /\ i - 1 <= staff_line + self_line
                             \/ i - 1 > staff_line + self_line /\ last_is_self_service
                          THEN 0 ELSE SELF_SERVICE_RATIO)
        IN  IF i = 1
            THEN [c EXCEPT !.start_service_time = 0,
                           !.departure_time = c.service_time]
            ELSE c ]

LineUp(staff_line, self_line, last_is_self_service) ==
    LET n == staff_line + self_line + 2
    IN  /\ num_employees = 1
        /\ num_self_service = 0
        /\ use_bee_algorithm = FALSE
        /\ simulation_time = 1
        /\ available_employees = 0
        /\ available_self_service = 0
        /\ employee_queue = [ i \in 1 .. staff_line |-> i ]
        /\ self_service_queue = [ i \in 1 .. self_line |-> staff_line + i ]
        /\ all_customers = LineUpCustomers(staff_line, self_line, last_is_self_service)
        /\ waiting_times = << >>
        /\ events = << Event(MIN_SERVICE_TIME, "departure", 0, 2),
                       Event(0, "arrival", n - 1, n + 1) >>
        /\ time = 0
        /\ total_customers = n
        /\ zones = << >>
        /\ balked_customers = 0
        /\ event = Event(0, "arrival", n - 2, IF n = 2 THEN 1 ELSE n)
        /\ pc = "loop"
        /\ scheduled = n + 1
        /\ dispatched = [ i \in 1 .. n - 1 |->
                             Event(0, "arrival", i - 1, IF i = 1 THEN 1 ELSE i + 1) ]
        /\ results = NoResults
        /\ SimpleUnused
        /\ assigned = << >>

LineUpInit ==
    \E staff_line, self_line \in 0 .. MaxLine : \E last_is_self_service \in BOOLEAN :
        LineUp(staff_line, self_line, last_is_self_service)

NextLineUp ==
    \/ DispatchArrival
    \/ DispatchDeparture
    \/ DispatchBalk
    \/ Finish

LineUpSpec == LineUpInit /\ [][NextLineUp]_vars

(* The runs with the zone policy, one employee and one terminal that begin
   with a burst of six staff customers at time 0 of which none balks: the
   first is served, five wait, each was given a zone on arrival, and the
   arrival of a self-service customer is scheduled at time 0. *)
ZoneBurstInit ==
    LET n == Burst + 2
    IN  /\ num_employees = 1
        /\ num_self_service = 1
        /\ use_bee_algorithm = TRUE
        /\ simulation_time = ZoneHorizon
        /\ available_employees = 0
        /\ available_self_service = 1
        /\ employee_queue = [ i \in 1 .. Burst |-> i ]
        /\ self_service_queue = << >>
        /\ all_customers = LineUpCustomers(Burst, 0, TRUE)
        /\ waiting_times = << >>
        /\ events = << Event(MIN_SERVICE_TIME, "departure", 0, 2),
                       Event(0, "arrival", n - 1, n + 1) >>
        /\ time = 0
        /\ total_customers = n
        /\ zones = [ i \in 1 .. NUM_ZONES |->
                        Cardinality({ k \in 0 .. Burst : k % NUM_ZONES = i - 1 }) ]
        /\ balked_customers = 0
        /\ event = Event(0, "arrival", n - 2, n)
        /\ pc = "loop"
        /\ scheduled = n + 1
        /\ dispatched = [ i \in 1 .. n - 1 |->
                             Event(0, "arrival", i - 1, IF i = 1 THEN 1 ELSE i + 1) ]
        /\ results = NoResults
        /\ SimpleUnused
        /\ assigned = [ i \in 1 .. Burst + 1 |->
                           [zone |-> ((i - 1) % NUM_ZONES) + 1, customer |-> i - 1,
                            pass |-> i] ]

DispatchArrivalBurst == ArrivalPassUpTo(Gaps, ZoneCustomers)

NextZoneBurst ==
    \/ DispatchArrivalBurst
    \/ DispatchDeparture
    \/ DispatchBalk
    \/ Finish

ZoneBurstSpec == ZoneBurstInit /\ [][NextZoneBurst]_vars

(* The runs in which every interarrival gap is strictly positive, at least one
   tick.  The loop of run_simulation is sequential code that always takes its
   next pass, hence the weak fairness. *)
PositiveGaps == { gap \in Gaps : gap > 0 }

FirstArrivalPositive == ScheduleFirstArrival(PositiveGaps)

DispatchArrivalPositive == ArrivalPass(PositiveGaps)

NextPositive ==
    \/ FirstArrivalPositive
    \/ DispatchArrivalPositive
    \/ DispatchDeparture
    \/ DispatchBalk
    \/ Finish

PositiveGapsSpec == Init /\ [][NextPositive]_vars /\ WF_vars(NextPositive)

-----------------------------------------------------------------------------
(* The fixed-timestep variant, PickupPoint of src/pvz_simple_simulation.py.
   One tick is one time step of run_simulation (self.time += 0.1).  The
   configuration, the clock, waiting_times and the position pc are the
   variables of the same names; the engine's other variables stay unused.
   The list queue_lengths is only written, never read, and is left out. *)

TIME_STEP == 1

(* random.normalvariate before the floor, in time steps: below the floor, or
   a service that lasts longer than two time steps. *)
SimpleNormals == {MIN_SERVICE_TIME - 1, 3}
SimpleGaps == {0, 1, MaxSteps}

EngineOnly ==
    << use_bee_algorithm, available_employees, available_self_service,
       employee_queue, self_service_queue, all_customers, events,
       total_customers, zones, balked_customers, event, scheduled, dispatched,
       results, assigned >>

(* PickupPoint.__init__ of the variant, with the configuration and the horizon
   chosen. *)
SimpleInit ==
    /\ num_employees \in 1 .. MaxEmployees
    /\ num_self_service \in SelfServiceCounts
    /\ simulation_time \in 0 .. MaxSteps
    /\ employee_busy = [i \in 1 .. num_employees |-> FALSE]
    /\ self_service_busy = [i \in 1 .. num_self_service |-> FALSE]
    /\ simple_customers = << >>
    /\ waiting_times = << >>
    /\ time = 0
    /\ next_arrival = None
    /\ customer_id = 0
    /\ pc = "start"
    /\ use_bee_algorithm = FALSE
    /\ available_employees = 0
    /\ available_self_service = 0
    /\ employee_queue = << >>
    /\ self_service_queue = << >>
    /\ all_customers = << >>
    /\ events = << >>
    /\ total_customers = 0
    /\ zones = << >>
    /\ balked_customers = 0
    /\ event = NoEvent
    /\ scheduled = 0
    /\ dispatched = << >>
    /\ results = NoResults
    /\ assigned = << >>

(* Customer.__init__ of the variant: no balked flag. *)
SimpleCustomer(id, arrival_time, normal, u_self) ==
    [id |-> id,
     arrival_time |-> arrival_time,
     start_service_time |-> None,
     departure_time |-> None,
     service_time |-> Max(MIN_SERVICE_TIME, normal),
     is_self_service |-> u_self < SELF_SERVICE_RATIO]

(* The part of the PickupPoint that process_customers reads and writes. *)
SimplePoint ==
    [employee_busy |-> employee_busy,
     self_service_busy |-> self_service_busy,
     customers |-> simple_customers,
     time |-> time]

(* The inner for loop with its break: the index of the first customer of the
   channel who has arrived and has not started service, 0 when there is none. *)
FirstWaiting(p, is_self_service) ==
    LET waiting == { k \in DOMAIN p.customers :
                        /\ p.customers[k].arrival_time <= p.time
                        /\ p.customers[k].start_service_time = None
                        /\ p.customers[k].is_self_service = is_self_service }
    IN  IF waiting = {} THEN 0
        ELSE CHOOSE k \in waiting : \A j \in waiting : k <= j

SetBusy(p, i, is_self_service, busy) ==
    IF is_self_service THEN [p EXCEPT !.self_service_busy[i] = busy]
    ELSE [p EXCEPT !.employee_busy[i] = busy]

(* The branch of a free server: the first waiting customer, if any, starts. *)
ServeWaiting(p, i, is_self_service, u_delay, delay) ==
    LET k == FirstWaiting(p, is_self_service)
    IN  IF k = 0 THEN p
        ELSE LET service_completion_time ==
                     p.time + DelayedServiceTime(p.customers[k].service_time,
                                                 u_delay, delay)
             IN  [SetBusy(p, i, is_self_service, TRUE)
                     EXCEPT !.customers[k].start_service_time = p.time,
                            !.customers[k].departure_time = service_completion_time]

(* Faulty variant of VisitServer: a busy server stays busy. *)
VisitServer_StaysBusy(p, i, is_self_service, u_delay, delay) ==
    LET busy == IF is_self_service THEN p.self_service_busy ELSE p.employee_busy
    IN  IF ~busy[i] THEN ServeWaiting(p, i, is_self_service, u_delay, delay)
        ELSE p

(* One pass of the loop over the servers of a channel, for server i: a free
   server takes the first waiting customer, a busy server is marked free. *)
VisitServer(p, i, is_self_service, u_delay, delay) ==
    LET busy == IF is_self_service THEN p.self_service_busy ELSE p.employee_busy
    IN  IF ~busy[i] THEN ServeWaiting(p, i, is_self_service, u_delay, delay)
        ELSE SetBusy(p, i, is_self_service, FALSE)

(* for i in range(n): the outcomes over all values of the draws. *)
RECURSIVE VisitChannel(_, _, _, _)
VisitChannel(points, i, n, is_self_service) ==
    IF i > n THEN points
    ELSE VisitChannel({ VisitServer(p, i, is_self_service, u_delay, delay) :
                            p \in points, u_delay \in Draws, delay \in Delays },
                      i + 1, n, is_self_service)

(* The employees first, then the terminals. *)
process_customers(p) ==
    VisitChannel(VisitChannel({p}, 1, num_employees, FALSE),
                 1, num_self_service, TRUE)

(* The first arrival time is drawn before the loop. *)
SimpleStart ==
    /\ pc = "start"
    /\ \E gap \in SimpleGaps : next_arrival' = gap
    /\ customer_id' = 0
    /\ pc' = "loop"
    /\ UNCHANGED << Config, EngineOnly, employee_busy, self_service_busy,
                    simple_customers, waiting_times, time >>

(* One pass of the while loop: at most one customer arrives, process_customers
   runs, the clock advances by one time step. *)
SimpleStep ==
    /\ pc = "loop"
    /\ time < simulation_time
    /\ \E normal \in SimpleNormals, u_self \in Draws, gap \in SimpleGaps :
          LET arrives == next_arrival <= time
              arrived == IF arrives
                         THEN Append(simple_customers,
                                     SimpleCustomer(customer_id, time, normal, u_self))
                         ELSE simple_customers
          IN  /\ customer_id' = IF arrives THEN customer_id + 1 ELSE customer_id
              /\ next_arrival' = IF arrives THEN next_arrival + gap ELSE next_arrival
              /\ \E p \in process_customers([SimplePoint EXCEPT !.customers = arrived]) :
                    /\ employee_busy' = p.employee_busy
                    /\ self_service_busy' = p.self_service_busy
                    /\ simple_customers' = p.customers
    /\ time' = time + TIME_STEP
    /\ UNCHANGED << Config, EngineOnly, waiting_times, pc >>

RECURSIVE SimpleWaitingTimes(_)
SimpleWaitingTimes(cs) ==
    IF cs = << >> THEN << >>
    ELSE (IF Head(cs).start_service_time # None /\ Head(cs).arrival_time # None
          THEN << Head(cs).start_service_time - Head(cs).arrival_time >>
          ELSE << >>) \o SimpleWaitingTimes(Tail(cs))

(* The loop ends; the waiting times are computed and run_simulation returns. *)
SimpleFinish ==
    /\ pc = "loop"
    /\ ~(time < simulation_time)
    /\ waiting_times' = waiting_times \o SimpleWaitingTimes(simple_customers)
    /\ pc' = "done"
    /\ UNCHANGED << Config, EngineOnly, SimpleState, time >>

SimpleNext ==
    \/ SimpleStart
    \/ SimpleStep
    \/ SimpleFinish

SimpleSpec == SimpleInit /\ [][SimpleNext]_vars

-----------------------------------------------------------------------------
(* Vocabulary of the properties. *)

CustomerIds == 0 .. (total_customers - 1)

Cust(c) == all_customers[c + 1]

Range(seq) == { seq[i] : i \in DOMAIN seq }

Pending(type, c) ==
    { i \in DOMAIN events : events[i].type = type /\ events[i].customer = c }

Fired(type, c) ==
    { i \in DOMAIN dispatched :
          dispatched[i].type = type /\ dispatched[i].customer = c }

(* Started, and its departure event not yet processed. *)
InService(c) == Cust(c).start_service_time # None /\ Pending("departure", c) # {}

InServiceCount(is_self_service) ==
    Cardinality({ c \in CustomerIds :
                      InService(c) /\ Cust(c).is_self_service = is_self_service })

Waiting(c) == c \in Range(employee_queue) \cup Range(self_service_queue)

NoDuplicates(seq) == \A i, j \in DOMAIN seq : seq[i] = seq[j] => i = j

(* C1: in every reachable state, for each channel, the available counter plus
   the number of customers of the channel in service equals the configured
   capacity of the channel. *)
C1_CapacityConserved ==
    /\ available_employees + InServiceCount(FALSE) = num_employees
    /\ available_self_service + InServiceCount(TRUE) = num_self_service

(* C2: available_employees stays within [0, num_employees] and
   available_self_service within [0, num_self_service]. *)
C2_CountersBounded ==
    /\ 0 <= available_employees /\ available_employees <= num_employees
    /\ 0 <= available_self_service /\ available_self_service <= num_self_service

(* C3: for every customer, a set start_service_time is at least the
   arrival_time, and a set departure_time is at least the start_service_time. *)
C3_TimestampsOrdered ==
    \A c \in CustomerIds :
        /\ Cust(c).start_service_time # None
              => Cust(c).start_service_time >= Cust(c).arrival_time
        /\ (Cust(c).start_service_time # None /\ Cust(c).departure_time # None)
              => Cust(c).departure_time >= Cust(c).start_service_time

(* A customer who waited in a line, was pulled into service and has departed. *)
C3_Witness ==
    \E c \in CustomerIds :
        /\ Cust(c).start_service_time > Cust(c).arrival_time
        /\ Cust(c).departure_time > Cust(c).start_service_time
        /\ Fired("departure", c) # {}

(* One step of a waiting line: it is left alone, or a customer not in it is
   appended at its tail, or its head is removed and starts service now. *)
FIFOStep(queue, queue_after) ==
    \/ queue_after = queue
    \/ \E c \in CustomerIds : c \notin Range(queue) /\ queue_after = Append(queue, c)
    \/ /\ queue # << >>
       /\ queue_after = Tail(queue)
       /\ all_customers[Head(queue) + 1].start_service_time = None
       /\ all_customers'[Head(queue) + 1].start_service_time = time'

(* C4: within each waiting line customers are dequeued in the order they were
   enqueued; the line is never reordered. *)
C4_FIFO ==
    [][ /\ FIFOStep(employee_queue, employee_queue')
        /\ FIFOStep(self_service_queue, self_service_queue') ]_vars

(* Two customers waited in the same line at once; the first enqueued has been
   pulled into service while the second is still waiting. *)
C4_Witness ==
    \E a, b \in CustomerIds :
        /\ a < b
        /\ Cust(a).is_self_service = Cust(b).is_self_service
        /\ Cust(a).start_service_time > Cust(b).arrival_time
        /\ Cust(a).start_service_time > Cust(a).arrival_time
        /\ Waiting(b)

(* C5: no customer is both in a waiting line and in service: a waiting
   customer has no start_service_time and no pending departure event, and no
   customer is in both lines or twice in one line. *)
C5_WaitingDisjointFromService ==
    /\ \A c \in CustomerIds :
          Waiting(c) => /\ Cust(c).start_service_time = None
                        /\ Pending("departure", c) = {}
    /\ Range(employee_queue) \cap Range(self_service_queue) = {}
    /\ NoDuplicates(employee_queue)
    /\ NoDuplicates(self_service_queue)
    /\ Range(employee_queue) \cup Range(self_service_queue) \subseteq CustomerIds

(* A customer waits while another is in service, after a pull from the line. *)
C5_Witness ==
    \E a, b, c \in CustomerIds :
        /\ Waiting(c)
        /\ InService(b) /\ Cust(b).start_service_time > Cust(b).arrival_time
        /\ Fired("departure", a) # {}

(* The step is the dispatch of the arrival of a customer who balks. *)
BalkingArrival ==
    /\ Len(dispatched') = Len(dispatched) + 1
    /\ event'.type = "arrival"
    /\ all_customers'[event'.customer + 1].balked

(* C6: when an arriving customer balks, the arrival leaves both capacity
   counters, both waiting lines and all zone loads unchanged, and from then on
   the customer's start_service_time and departure_time stay unset and the
   customer is in no waiting line. *)
C6_BalkLeavesEngineAlone ==
    [][ /\ BalkingArrival =>
              UNCHANGED << available_employees, available_self_service,
                           employee_queue, self_service_queue, zones >>
        /\ \A i \in DOMAIN all_customers' :
              all_customers'[i].balked =>
                  /\ all_customers'[i].start_service_time = None
                  /\ all_customers'[i].departure_time = None
                  /\ (i - 1) \notin Range(employee_queue') \cup Range(self_service_queue')
      ]_vars

(* A customer balked while another was in service, and a later customer was
   served after the balk; the run has returned. *)
C6_Witness ==
    /\ pc = "done"
    /\ \E a, c, d \in CustomerIds :
          /\ a < c /\ c < d
          /\ Cust(c).balked
          /\ Cust(a).start_service_time # None
          /\ Cust(a).start_service_time <= Cust(c).arrival_time
          /\ Cust(a).departure_time > Cust(c).arrival_time
          /\ Cust(d).start_service_time # None

(* C7: run_simulation only dispatches events whose time is strictly less than
   the horizon, and the clock never takes a value at or beyond the horizon. *)
C7_DispatchInsideHorizon ==
    event # NoEvent => (event.time < simulation_time /\ time < simulation_time)

(* C8, as claimed: when run_simulation returns, no departure or balk event is
   left in the event queue. *)
C8_AllFiredAtReturn ==
    pc = "done" => \A i \in DOMAIN events : events[i].type \notin {"departure", "balk"}

(* C8, amended: every scheduled departure or balk event is, at any time,
   either pending in the event queue or dispatched, once in all; and when
   run_simulation returns, every event left in the queue has a time at or
   beyond the horizon, so that each departure or balk event with a time below
   the horizon has been dispatched exactly once. *)
C8_FiredOnceOrBeyondHorizon ==
    /\ \A c \in CustomerIds :
          /\ Cardinality(Pending("departure", c)) + Cardinality(Fired("departure", c))
                = (IF Cust(c).departure_time # None THEN 1 ELSE 0)
          /\ Cardinality(Pending("balk", c)) + Cardinality(Fired("balk", c))
                = (IF Cust(c).balked THEN 1 ELSE 0)
    /\ \A i \in DOMAIN events : events[i].customer \in CustomerIds
    /\ pc = "done" => \A i \in DOMAIN events : events[i].time >= simulation_time

(* The run has returned with a departure left in the queue, after another
   departure and a balk were dispatched. *)
C8_Witness ==
    /\ pc = "done"
    /\ \E i \in DOMAIN events : events[i].type = "departure"
    /\ \E i, j \in DOMAIN dispatched :
          dispatched[i].type = "departure" /\ dispatched[j].type = "balk"

(* C9: events are dispatched in non-decreasing time order, the clock is the
   time of the last event dispatched and so never decreases, and every pending
   event has a time at or after the clock, so the event popped is one of
   least time. *)
C9_TimeOrdered ==
    /\ \A i, j \in DOMAIN dispatched :
          i < j => dispatched[i].time <= dispatched[j].time
    /\ time = (IF dispatched = << >> THEN 0 ELSE dispatched[Len(dispatched)].time)
    /\ \A i \in DOMAIN events : events[i].time >= time

(* An event appended later was dispatched before an event appended earlier,
   because its time is smaller. *)
C9_Witness ==
    \E i, j \in DOMAIN dispatched :
        /\ i < j
        /\ dispatched[i].seq > dispatched[j].seq
        /\ dispatched[i].time < dispatched[j].time

(* C10: among events of equal time the dispatch order is the order of
   insertion: an event is dispatched before every event of the same time that
   was appended to the event list after it. *)
C10_StableTieBreak ==
    /\ \A i, j \in DOMAIN dispatched :
          (i < j /\ dispatched[i].time = dispatched[j].time)
              => dispatched[i].seq < dispatched[j].seq
    /\ \A i \in DOMAIN dispatched : \A j \in DOMAIN events :
          dispatched[i].time = events[j].time => dispatched[i].seq < events[j].seq

(* A balk event inserted at the clock was dispatched after a departure of the
   same time appended before it and before an arrival of the same time
   appended after it. *)
C10_Witness ==
    \E h, i, j \in DOMAIN dispatched :
        /\ h < i /\ i < j
        /\ dispatched[h].type = "departure"
        /\ dispatched[i].type = "balk"
        /\ dispatched[j].type = "arrival"
        /\ dispatched[h].time = dispatched[i].time
        /\ dispatched[i].time = dispatched[j].time
        /\ dispatched[h].seq < dispatched[i].seq
        /\ dispatched[i].seq < dispatched[j].seq

(* C11: with strictly positive interarrival gaps run_simulation terminates,
   and when it has returned no pending event has a time below the horizon. *)
C11_TerminatesInsideHorizon ==
    <>(pc = "done" /\ \A i \in DOMAIN events : events[i].time >= simulation_time)

(* The run has returned after two customers were handled and a departure was
   dispatched, with an event beyond the horizon left in the queue. *)
C11_Witness ==
    /\ pc = "done"
    /\ total_customers >= 2
    /\ \E i \in DOMAIN dispatched : dispatched[i].type = "departure"
    /\ events # << >>

(* The step is the dispatch of the arrival of a customer who does not balk. *)
AdmittedArrival ==
    /\ Len(dispatched') = Len(dispatched) + 1
    /\ event'.type = "arrival"
    /\ ~all_customers'[event'.customer + 1].balked

(* The available counter and the waiting line of the channel of customer c. *)
AvailableFor(c) ==
    IF Cust(c).is_self_service THEN available_self_service ELSE available_employees

LineFor(c) ==
    IF Cust(c).is_self_service THEN self_service_queue ELSE employee_queue

(* C12: a non-balking customer who arrives while the available counter of its
   channel is at least 1 and the line of the channel is empty starts service
   in the same transition, with start_service_time equal to arrival_time, and
   is not appended to a waiting line. *)
C12_ServedAtOnce ==
    [][ (/\ AdmittedArrival
         /\ AvailableFor(event'.customer) >= 1
         /\ LineFor(event'.customer) = << >>)
        => /\ all_customers'[event'.customer + 1].start_service_time
                 = all_customers'[event'.customer + 1].arrival_time
           /\ all_customers'[event'.customer + 1].start_service_time = time'
           /\ event'.customer \notin
                 Range(employee_queue') \cup Range(self_service_queue')
      ]_vars

(* The last event dispatched is the arrival of a customer served at once, on
   a slot that an earlier departure had freed. *)
C12_Witness ==
    /\ event.type = "arrival"
    /\ Cust(event.customer).start_service_time = Cust(event.customer).arrival_time
    /\ ~Waiting(event.customer)
    /\ \E a \in CustomerIds :
          /\ Cust(a).is_self_service = Cust(event.customer).is_self_service
          /\ Fired("departure", a) # {}

(* C13: with num_self_service = 0, available_self_service is 0 in every
   reachable state and every non-balking customer with is_self_service true
   is in self_service_queue with start_service_time unset. *)
C13_SelfServiceSaturated ==
    num_self_service = 0 =>
        /\ available_self_service = 0
        /\ \A c \in CustomerIds :
              (Cust(c).is_self_service /\ ~Cust(c).balked)
                  => /\ c \in Range(self_service_queue)
                     /\ Cust(c).start_service_time = None

(* C13 for the customers whose arrival has been handled: it holds of them. *)
C13_ArrivedSelfServiceSaturated ==
    num_self_service = 0 =>
        /\ available_self_service = 0
        /\ \A c \in CustomerIds :
              (Cust(c).is_self_service /\ ~Cust(c).balked /\ Fired("arrival", c) # {})
                  => /\ c \in Range(self_service_queue)
                     /\ Cust(c).start_service_time = None

(* The customers who started service and did not balk. *)
Started == { c \in CustomerIds : Cust(c).start_service_time # None /\ ~Cust(c).balked }

(* C17: after run_simulation has returned, waiting_times holds exactly one
   entry per customer with start_service_time set and balked false, equal to
   start_service_time - arrival_time, in creation order; every entry is at
   least 0 and no balked or never-started customer has an entry. *)
C17_WaitingTimes ==
    pc = "done" =>
        /\ Len(waiting_times) = Cardinality(Started)
        /\ \A c \in Started :
              LET k == Cardinality({ d \in Started : d <= c })
              IN  /\ waiting_times[k]
                        = Cust(c).start_service_time - Cust(c).arrival_time
                  /\ waiting_times[k] >= 0

(* A finished run with a customer served at once, one who waited, and one who
   never started service. *)
C17_Witness ==
    /\ pc = "done"
    /\ \E i, j \in DOMAIN waiting_times : waiting_times[i] = 0 /\ waiting_times[j] > 0
    /\ \E c \in CustomerIds : c \notin Started

(* C18: no run starts on a PickupPoint with a zero or negative capacity,
   because its construction fails. *)
C18_ZeroCapacityRejected ==
    pc # "start" => (num_employees > 0 /\ num_self_service > 0)

(* C19: when a run yields no waiting times, analyze_results reports the
   average and the maximum waiting time as 0 and does not divide by the zero
   count. *)
C19_EmptyWaitingTimesGuarded ==
    (pc = "analyzed" /\ waiting_times = << >>) =>
        /\ ~results.raised
        /\ results.avg_waiting_time = Quotient(0, 1)
        /\ results.max_waiting_time = 0

(* analyze_results has read a run in which customers arrived and none started
   service. *)
C19_Witness ==
    /\ pc = "analyzed"
    /\ waiting_times = << >>
    /\ results.total_customers >= 2
    /\ \E i \in DOMAIN dispatched : dispatched[i].type = "arrival"

(* C20: a customer's departure_time is unset until the customer's departure
   event has been dispatched, so that when run_simulation has returned the
   number of customers with departure_time set equals the number of departure
   events processed. *)
C20_DepartureTimeSetAtDeparture ==
    /\ \A c \in CustomerIds :
          Cust(c).departure_time # None => Fired("departure", c) # {}
    /\ pc = "done" =>
          customers_served(all_customers)
              = Cardinality({ i \in DOMAIN dispatched : dispatched[i].type = "departure" })

(* The draws of random.random() on a grid of 10 permille, and the probability,
   in permille, that will_customer_balk answers yes in engine state s. *)
BalkGrid == { 10 * k : k \in 0 .. 99 }

BalkProbability(s, is_self_service) ==
    10 * Cardinality({ u \in BalkGrid : will_customer_balk(s, is_self_service, u) })

OwnLine(is_self_service) ==
    IF is_self_service THEN self_service_queue ELSE employee_queue

(* C16: the probability that a customer balks is min(0.05 + 0.02 * L, 0.5)
   with L the length of the line of the customer's own channel, whatever the
   other line holds; it never exceeds 0.5, is 0.5 for every L >= 23, and does
   not fall when the line grows by one. *)
C16_BalkProbability ==
    \A is_self_service \in BOOLEAN :
        LET L == Len(OwnLine(is_self_service))
            p == BalkProbability(Engine, is_self_service)
            other_emptied == IF is_self_service
                             THEN [Engine EXCEPT !.employee_queue = << >>]
                             ELSE [Engine EXCEPT !.self_service_queue = << >>]
            one_shorter == IF is_self_service
                           THEN [Engine EXCEPT !.self_service_queue = Tail(@)]
                           ELSE [Engine EXCEPT !.employee_queue = Tail(@)]
        IN  /\ p = (IF 50 + 20 * L < 500 THEN 50 + 20 * L ELSE 500)
            /\ p <= 500
            /\ (L >= 23 => p = 500)
            /\ BalkProbability(other_emptied, is_self_service) = p
            /\ (L > 0 => BalkProbability(one_shorter, is_self_service) <= p)

(* A customer has just balked at a line of 23 or more of its own channel while
   the other line is shorter than 22, where the probability is below the cap. *)
C16_Witness ==
    /\ event.type = "arrival"
    /\ Cust(event.customer).balked
    /\ Len(OwnLine(Cust(event.customer).is_self_service)) >= 23
    /\ Len(OwnLine(~Cust(event.customer).is_self_service)) \in 1 .. 21

ZoneIds == DOMAIN zones

(* The step made a zone assignment. *)
ZoneAssigned == Len(assigned') > Len(assigned)

AssignmentsOf(c) == { i \in DOMAIN assigned : assigned[i].customer = c }

(* C21: a zone load is incremented only when a customer is taken into service:
   a staff customer who waits in employee_queue has had no zone assignment,
   and no customer has more than one. *)
C21_ZoneOnlyAtService ==
    use_bee_algorithm =>
        \A c \in CustomerIds :
            /\ c \in Range(employee_queue) => AssignmentsOf(c) = {}
            /\ Cardinality(AssignmentsOf(c)) <= 1

(* The step is the dispatch of an arrival or a departure of a self-service
   customer. *)
SelfServiceStep ==
    /\ Len(dispatched') = Len(dispatched) + 1
    /\ event'.type \in {"arrival", "departure"}
    /\ all_customers'[event'.customer + 1].is_self_service

(* C22: no arrival, dequeue or departure of a self-service customer changes a
   zone load or makes a zone assignment. *)
C22_ZonesStaffOnly ==
    [][ SelfServiceStep => (zones' = zones /\ assigned' = assigned) ]_vars

(* C27: every customer record has arrival_time below the horizon, the first
   customer included. *)
C27_ArrivalsInsideHorizon ==
    \A c \in CustomerIds : Cust(c).arrival_time < simulation_time

(* C28: every customer in all_customers has had its arrival event dispatched,
   so the number of customer records equals the number of arrival events
   processed. *)
C28_CreatedAtArrival ==
    /\ \A c \in CustomerIds : Fired("arrival", c) # {}
    /\ Len(all_customers)
          = Cardinality({ i \in DOMAIN dispatched : dispatched[i].type = "arrival" })

(* The zone of the assignment the step made, and the loads the selection saw:
   the loads after the step with the increment taken back. *)
ZoneChosen == assigned'[Len(assigned')].zone

LoadsSeen == [zones' EXCEPT ![ZoneChosen] = @ - 1]

(* C23: bee_algorithm_select_zone returns a zone of minimal load, the one of
   lowest index among those; the caller adds 1 to the load of that zone and
   leaves the loads of the other zones as they were (on a departure, as the
   release left them). *)
C23_LowestIndexMinimum ==
    [][ ZoneAssigned =>
          /\ Len(assigned') = Len(assigned) + 1
          /\ \A j \in ZoneIds : LoadsSeen[ZoneChosen] <= LoadsSeen[j]
          /\ \A j \in ZoneIds : j < ZoneChosen => LoadsSeen[j] > LoadsSeen[ZoneChosen]
          /\ IF event'.type = "arrival"
             THEN LoadsSeen = zones
             ELSE \/ LoadsSeen = zones /\ \A j \in ZoneIds : zones[j] = 0
                  \/ \E r \in ZoneIds :
                        zones[r] > 0 /\ LoadsSeen = [zones EXCEPT ![r] = @ - 1]
      ]_vars

(* The last loop pass made an assignment among zones of unequal load with a
   tie at the minimum: the zone chosen is the first of the two least loaded. *)
C23_Witness ==
    /\ assigned # << >>
    /\ assigned[Len(assigned)].pass = Len(dispatched)
    /\ LET z == assigned[Len(assigned)].zone
       IN  /\ \E j \in ZoneIds : j > z /\ zones[j] = zones[z] - 1
           /\ \E k \in ZoneIds : zones[k] > zones[z]

(* The step is the dispatch of a departure with the zone policy enabled. *)
ZoneDeparture ==
    /\ Len(dispatched') = Len(dispatched) + 1
    /\ event'.type = "departure"
    /\ use_bee_algorithm

(* The loads as the release step of the departure left them. *)
LoadsReleased == IF ZoneAssigned THEN LoadsSeen ELSE zones'

(* C24: on a departure with the zone policy, the release takes exactly 1 from
   the load of the lowest-index zone with load > 0 and changes no other load,
   and changes nothing when every load is 0; every zone load is at least 0 in
   every state. *)
C24_ReleaseFirstLoaded ==
    [][ /\ ZoneDeparture =>
              IF \A j \in ZoneIds : zones[j] = 0
              THEN LoadsReleased = zones
              ELSE \E r \in ZoneIds :
                      /\ zones[r] > 0
                      /\ \A j \in ZoneIds : j < r => zones[j] = 0
                      /\ LoadsReleased = [zones EXCEPT ![r] = @ - 1]
        /\ \A j \in DOMAIN zones' : zones'[j] >= 0
      ]_vars

(* The first departure of the run has taken the load of zone 1 and left the
   load of zone 2, without pulling a customer. *)
C24_Witness ==
    /\ use_bee_algorithm
    /\ event.type = "departure"
    /\ Cardinality({ i \in DOMAIN dispatched : dispatched[i].type = "departure" }) = 1
    /\ Len(assigned) = 2
    /\ \A i \in DOMAIN assigned : assigned[i].pass < Len(dispatched)
    /\ zones = << 0, 1, 0 >>

(* The step is the dispatch of an event of the given type. *)
Dispatch(type) ==
    /\ Len(dispatched') = Len(dispatched) + 1
    /\ event'.type = type

(* The events the step appended, as they were appended. *)
Appended ==
    { e \in Range(events') : e.seq > scheduled }

(* What handle_departure does to the channel of the departing customer: the
   counter and the line before and after, and the other channel untouched. *)
DepartureOn(available, available_after, line, line_after) ==
    /\ available_after = available + 1
    /\ IF line = << >>
       THEN /\ line_after = << >>
            /\ Appended = {}
            /\ \A c \in CustomerIds :
                  all_customers'[c + 1].start_service_time = Cust(c).start_service_time
       ELSE /\ line_after = Tail(line)
            /\ Cust(Head(line)).start_service_time = None
            /\ all_customers'[Head(line) + 1].start_service_time = time'
            /\ \E e \in Appended :
                  /\ Appended = {e}
                  /\ e.type = "departure"
                  /\ e.customer = Head(line)
                  /\ e.time > time'

(* C25: handle_departure of a customer adds exactly 1 to the available counter
   of the customer's channel and, only if the line of that channel is not
   empty, pops its head, sets the start_service_time of that customer to the
   clock and schedules its departure later than the clock; the counter and the
   line of the other channel stay as they are, and no other transition takes
   a customer out of a waiting line. *)
C25_DepartureStep ==
    [][ /\ Dispatch("departure") =>
              IF all_customers[event'.customer + 1].is_self_service
              THEN /\ DepartureOn(available_self_service, available_self_service',
                                  self_service_queue, self_service_queue')
                   /\ UNCHANGED << available_employees, employee_queue >>
              ELSE /\ DepartureOn(available_employees, available_employees',
                                  employee_queue, employee_queue')
                   /\ UNCHANGED << available_self_service, self_service_queue >>
        /\ ~Dispatch("departure") =>
              /\ Range(employee_queue) \subseteq Range(employee_queue')
              /\ Range(self_service_queue) \subseteq Range(self_service_queue')
      ]_vars

(* A staff departure has just pulled the head of employee_queue, who had
   waited, while a self-service customer stays in the other line. *)
C25_Witness ==
    /\ event.type = "departure"
    /\ ~Cust(event.customer).is_self_service
    /\ self_service_queue # << >>
    /\ available_employees >= 1
    /\ \E h \in CustomerIds :
          /\ ~Cust(h).is_self_service
          /\ Cust(h).start_service_time = event.time
          /\ Cust(h).start_service_time > Cust(h).arrival_time
          /\ \E i \in Pending("departure", h) : events[i].seq = scheduled

(* What handle_arrival does to the channel of a non-balking customer c: the
   counter and the line before and after. *)
ArrivalOn(c, available, available_after, line, line_after) ==
    LET for_c == { e \in Appended : e.customer = c }
    IN  IF available > 0
        THEN /\ available_after = available - 1
             /\ all_customers'[c + 1].start_service_time = time'
             /\ \E e \in for_c : for_c = {e} /\ e.type = "departure"
             /\ line_after = line
        ELSE /\ line_after = Append(line, c)
             /\ available_after = available
             /\ all_customers'[c + 1].start_service_time = None
             /\ for_c = {}

(* C26: handle_arrival of a non-balking customer does exactly one of two
   things: if the available counter of the customer's channel is > 0 it takes
   1 from that counter, sets start_service_time to the clock and schedules one
   departure event; otherwise it appends the customer at the tail of the
   channel's line, leaves both counters as they are and schedules no event for
   the customer. *)
C26_ArrivalStep ==
    [][ AdmittedArrival =>
          IF all_customers[event'.customer + 1].is_self_service
          THEN /\ ArrivalOn(event'.customer,
                            available_self_service, available_self_service',
                            self_service_queue, self_service_queue')
               /\ UNCHANGED << available_employees, employee_queue >>
          ELSE /\ ArrivalOn(event'.customer,
                            available_employees, available_employees',
                            employee_queue, employee_queue')
               /\ UNCHANGED << available_self_service, self_service_queue >>
      ]_vars

(* The arrival just dispatched found no free slot: the customer stands at the
   tail of a line of two, with no start of service and no event of its own. *)
C26_Witness ==
    /\ event.type = "arrival"
    /\ ~Cust(event.customer).balked
    /\ AvailableFor(event.customer) = 0
    /\ Len(LineFor(event.customer)) = 2
    /\ LineFor(event.customer)[2] = event.customer
    /\ Cust(event.customer).start_service_time = None
    /\ \A i \in DOMAIN events : events[i].customer # event.customer

(* The customers whose balked flag is set. *)
Balked == { c \in CustomerIds : Cust(c).balked }

(* C29: once a customer has balked, the event queue holds no event that
   refers to that customer. *)
C29_NoEventAfterBalk ==
    \A c \in Balked : \A i \in DOMAIN events : events[i].customer # c

(* C29, as it holds: for a customer who has balked exactly one balk event was
   scheduled, at the customer's arrival time, which is pending or has been
   dispatched; no other event of the customer is pending and no departure of
   the customer was ever dispatched. *)
C29_OnlyBalkEventAfterBalk ==
    \A c \in Balked :
        /\ Cardinality(Pending("balk", c)) + Cardinality(Fired("balk", c)) = 1
        /\ \A i \in Pending("balk", c) : events[i].time = Cust(c).arrival_time
        /\ \A i \in Fired("balk", c) : dispatched[i].time = Cust(c).arrival_time
        /\ Pending("arrival", c) = {}
        /\ Pending("departure", c) = {}
        /\ Fired("departure", c) = {}

(* A customer balked at a line that was not empty; its balk event is still in
   the event queue, behind the departure of the customer in service. *)
C29_Witness ==
    \E c \in Balked :
        /\ Pending("balk", c) # {}
        /\ event.type = "arrival" /\ event.customer = c
        /\ Len(LineFor(c)) >= 1
        /\ \E i \in DOMAIN events : events[i].type = "departure"

(* C30: a balked flag changes from false to true only in the step that handles
   the customer's own arrival and never changes back; a customer who is in a
   waiting line or has started service is not balked; balked_customers equals
   the number of customers with balked set. *)
C30_BalkDecidedAtArrival ==
    [][ /\ \A c \in CustomerIds :
              /\ (~Cust(c).balked /\ all_customers'[c + 1].balked)
                    => (Dispatch("arrival") /\ event'.customer = c)
              /\ Cust(c).balked => all_customers'[c + 1].balked
              /\ (Cust(c).start_service_time # None \/ Waiting(c))
                    => ~all_customers'[c + 1].balked
        /\ balked_customers'
              = Cardinality({ i \in DOMAIN all_customers' : all_customers'[i].balked })
      ]_vars

(* Two customers have balked, the second after the balk event of the first
   was dispatched, and a third customer who did not balk is waiting. *)
C30_Witness ==
    /\ balked_customers = 2
    /\ \E a, b \in Balked : a # b /\ Fired("balk", a) # {} /\ Pending("balk", b) # {}
    /\ \E w \in CustomerIds : Waiting(w)

(* The events scheduled so far for customer c: pending or already popped. *)
ScheduledCount(type, c) ==
    Cardinality(Pending(type, c)) + Cardinality(Fired(type, c))

ScheduledOnce ==
    \A c \in CustomerIds :
        /\ ScheduledCount("departure", c) <= 1
        /\ ScheduledCount("balk", c) <= 1
        /\ ScheduledCount("departure", c) + ScheduledCount("balk", c) <= 1
        /\ Pending("departure", c) # {}
              => (Fired("departure", c) = {} /\ ~Cust(c).balked)

(* C31: a set start_service_time of a customer never changes again; over the
   whole run each customer has at most one departure event and at most one
   balk event scheduled, never both; a pending departure event refers to a
   customer whose departure has not been processed and who has not balked. *)
C31_StartedAndScheduledOnce ==
    [][ /\ \A c \in CustomerIds :
              Cust(c).start_service_time # None
                  => all_customers'[c + 1].start_service_time
                         = Cust(c).start_service_time
        /\ ScheduledOnce' ]_vars

(* One customer has departed, a second one was pulled from a line and is in
   service with its departure pending, a third one has balked. *)
C31_Witness ==
    \E a, b, c \in CustomerIds :
        /\ Fired("departure", a) # {}
        /\ Cust(b).start_service_time > Cust(b).arrival_time
        /\ Pending("departure", b) # {}
        /\ ScheduledCount("balk", c) = 1

(* The delay added to the service time of customer c when service started. *)
AddedDelay(c) ==
    Cust(c).departure_time - Cust(c).start_service_time - Cust(c).service_time

(* C32: for every customer who has started service the scheduled departure
   time is start_service_time + service_time, plus an incident delay of the
   range only when the incident draw succeeds; service_time is at least the
   floor times the zone efficiency, so the departure is strictly after the
   start; the stored service_time is the floored variate, never the delayed
   one. *)
C32_DepartureIsStartPlusService ==
    LET floored == { Max(MIN_SERVICE_TIME, normal) * ZONE_EFFICIENCY :
                        normal \in Normals }
    IN  /\ \A c \in CustomerIds :
              /\ Cust(c).service_time \in floored
              /\ Cust(c).start_service_time # None
                    => /\ AddedDelay(c) \in {0} \cup Delays
                       /\ Cust(c).departure_time > Cust(c).start_service_time
        /\ \A i \in DOMAIN events :
              events[i].type = "departure"
                  => events[i].time = Cust(events[i].customer).departure_time
        /\ \A service_time \in floored, u \in Draws, delay \in Delays :
              DelayedServiceTime(service_time, u, delay)
                  = service_time + (IF u * 10 < 1000 THEN delay ELSE 0)

(* One customer started service with an incident delay, another without, the
   first of them after waiting in a line. *)
C32_Witness ==
    \E a, b \in CustomerIds :
        /\ Cust(a).start_service_time > Cust(a).arrival_time
        /\ AddedDelay(a) = DELAY_TIME_MIN
        /\ Cust(b).start_service_time # None
        /\ AddedDelay(b) = 0

(* C34: the number of customers of a channel in service (started, departure
   event pending) never exceeds the configured capacity of the channel. *)
C34_InServiceWithinCapacity ==
    /\ InServiceCount(FALSE) <= num_employees
    /\ InServiceCount(TRUE) <= num_self_service

(* C35: while a waiting line is not empty its channel has no free server. *)
C35_LineImpliesNoFreeServer ==
    /\ employee_queue # << >> => available_employees = 0
    /\ self_service_queue # << >> => available_self_service = 0

(* C36: no overtaking within a channel: of two customers of one channel who
   did not balk, the later one has not started service while the earlier one
   is still waiting in the line. *)
C36_NoOvertaking ==
    \A a, b \in CustomerIds :
        ( /\ a < b
          /\ Cust(a).is_self_service = Cust(b).is_self_service
          /\ Waiting(a) )
            => Cust(b).start_service_time = None

(* The arrival of customer c has been handled. *)
Arrived(c) == Fired("arrival", c) # {}

Departed(c) == Fired("departure", c) # {}

(* The customers an event of the type refers to, in a list of events. *)
CustomersOf(evs, type) ==
    { evs[i].customer : i \in { j \in DOMAIN evs : evs[j].type = type } }

CountOf(evs, type) == Cardinality({ i \in DOMAIN evs : evs[i].type = type })

(* C37: every customer whose arrival has been handled is in exactly one of:
   balked, waiting in a line, in service with a pending departure event,
   departed; a customer whose arrival is still pending is in none; the number
   of handled arrivals is the sum of the four counts, and the number of
   pending departure events is the number of customers in service. *)
C37_CustomerConservation ==
    LET arrived == CustomersOf(dispatched, "arrival")
        departed == CustomersOf(dispatched, "departure")
        in_service == CustomersOf(events, "departure")
        waiting == Range(employee_queue) \cup Range(self_service_queue)
        balked == { c \in CustomerIds : Cust(c).balked }
        One(set, c) == IF c \in set THEN 1 ELSE 0
    IN  /\ \A c \in CustomerIds :
              One(balked, c) + One(waiting, c) + One(in_service, c) + One(departed, c)
                  = One(arrived, c)
        /\ CountOf(dispatched, "arrival")
              = balked_customers + Len(employee_queue) + Len(self_service_queue)
                  + Cardinality(in_service) + Cardinality(departed)
        /\ CountOf(events, "departure") = Cardinality(in_service)
        /\ \A c \in in_service : Cust(c).start_service_time # None

(* Of three handled arrivals one customer has departed, one was pulled from a
   line and is in service, one has balked. *)
C37_Witness ==
    \E a, b, c \in CustomerIds :
        /\ Arrived(a) /\ Arrived(b) /\ Arrived(c)
        /\ Departed(a)
        /\ InService(b) /\ Cust(b).start_service_time > Cust(b).arrival_time
        /\ Cust(c).balked

(* C38: with the zone policy on, the sum of the zone loads never exceeds the
   number of customers in service, and so stays within
   num_employees + num_self_service. *)
C38_ZoneLoadsWithinService ==
    use_bee_algorithm =>
        /\ Sum(zones) <= InServiceCount(FALSE) + InServiceCount(TRUE)
        /\ Sum(zones) <= num_employees + num_self_service

(* C39: at most one arrival event is pending; the customers carry the ids
   0, 1, 2, ... in the order of their creation; arrival_time does not decrease
   with the id. *)
C39_ArrivalChain ==
    /\ Cardinality({ i \in DOMAIN events : events[i].type = "arrival" }) <= 1
    /\ total_customers = Len(all_customers)
    /\ \A i \in DOMAIN all_customers : all_customers[i].id = i - 1
    /\ \A i, j \in DOMAIN all_customers :
          i < j => all_customers[i].arrival_time <= all_customers[j].arrival_time

(* Three customers were created, two at the same time and the third later,
   and the arrival of the third is the one pending arrival event. *)
C39_Witness ==
    /\ total_customers = 3
    /\ all_customers[1].arrival_time = all_customers[2].arrival_time
    /\ all_customers[2].arrival_time < all_customers[3].arrival_time
    /\ Pending("arrival", 2) # {}
    /\ Arrived(0) /\ Arrived(1)

(* The customers of a channel in service at time t in the fixed-timestep
   variant: start_service_time <= t < departure_time. *)
SimpleInServiceAt(t, is_self_service) ==
    { k \in DOMAIN simple_customers :
          /\ simple_customers[k].is_self_service = is_self_service
          /\ simple_customers[k].start_service_time # None
          /\ simple_customers[k].start_service_time <= t
          /\ t < simple_customers[k].departure_time }

(* C33: in the fixed-timestep variant a server that is marked busy after one
   time step is marked free by the next one, whatever the departure_time of
   the customer it serves; the customer's timestamps are left as they are. *)
C33_BusyServerFreedOnNextVisit ==
    [][ time' # time =>
          /\ \A i \in DOMAIN employee_busy :
                employee_busy[i] => ~employee_busy'[i]
          /\ \A i \in DOMAIN self_service_busy :
                self_service_busy[i] => ~self_service_busy'[i]
          /\ \A k \in DOMAIN simple_customers :
                simple_customers[k].start_service_time # None
                    => simple_customers'[k] = simple_customers[k] ]_vars

(* On one employee two staff customers are in service at the time of the last
   step: the second started while the departure_time of the first was still
   ahead. *)
C33_Witness ==
    /\ pc = "loop"
    /\ time > 0
    /\ \/ Cardinality(SimpleInServiceAt(time - TIME_STEP, FALSE)) > num_employees
       \/ Cardinality(SimpleInServiceAt(time - TIME_STEP, TRUE)) > num_self_service

=============================================================================
